---------------------------- MODULE Spec2Model ----------------------------
(***************************************************************************)
(* Model of the panoptes tiling tools: tileMaker.py (fits_to_tiles,        *)
(* find_duplicates), reconstruct.py (reconstruct_image_from_tiles) and     *)
(* grayscaler.py (create_merkle_root, process_fits_to_grayscale).          *)
(*                                                                         *)
(* Seven specifications share the module:                                  *)
(*   SpecTiles  : one raster is split, scanned and reconstructed;          *)
(*   SpecDamage : the same with one tile file damaged before the           *)
(*                reconstruction;                                          *)
(*   SpecNormalize : the split of one-tile rasters of a wider sample       *)
(*                range;                                                   *)
(*   SpecScan   : find_duplicates over a corpus of manifests;              *)
(*   SpecDefect : the same over a corpus with one defective manifest;      *)
(*   SpecMerkle : create_merkle_root, called directly or by the driver;    *)
(*   SpecMerkleFair : the same, a started call running to its end.         *)
(* Images are sequences of rows, rows are sequences of samples.            *)
(***************************************************************************)
EXTENDS Integers, Sequences, FiniteSets, TLC

VARIABLES
    image_data,     \* the raster read from the FITS file (hdul[0].data)
    tile_size,      \* fits_to_tiles' tile_size argument
    split_state,    \* "ready", "done" or the exception that ended fits_to_tiles
    warnings,       \* the (i, j) cells fits_to_tiles logged a warning for
    tile_files,     \* the output directory: filename -> pixel block of the file
    manifest_files, \* the *_metadata.json files of the output directory (0 or 1)
    manifest_writer,\* who wrote that file: "none", "split" or "other"
    damaged,        \* filenames of the tiles whose file was damaged after the split
    full_image,     \* reconstruct's canvas as last allocated
    rec_errors,     \* the filenames reconstruct logged an error for
    rec_state,      \* "ready", "saved" or the exception that ended reconstruct
    corpus,         \* find_duplicates' directory tree: the manifest files in it
    walk_order,     \* the order os.walk yielded the manifest files in (indices)
    hash_dict,      \* find_duplicates' hash_dict after the run
    duplicates,     \* find_duplicates' duplicates list after the run
    scan_errors,    \* the files (indices) find_duplicates logged an error for
    scan_state,     \* "ready" or "done"
    hashes,         \* the argument of the outermost create_merkle_root call
    level,          \* the argument of the innermost create_merkle_root call
    new_hashes,     \* new_hashes of the innermost call
    idx,            \* the loop index i of the innermost call
    depth,          \* number of create_merkle_root frames on the stack
    merkle_state,   \* "idle", "loop", "returned" or "RecursionError"
    merkle_root,    \* the value returned by the outermost call
    fits_files      \* the driver's input: per file, its data or "None"

tileVars   == <<image_data, tile_size, split_state, warnings, tile_files,
                manifest_files, manifest_writer, damaged, full_image,
                rec_errors, rec_state>>
scanVars   == <<corpus, walk_order, hash_dict, duplicates, scan_errors, scan_state>>
merkleVars == <<hashes, level, new_hashes, idx, depth, merkle_state, merkle_root,
                fits_files>>
vars       == <<tileVars, scanVars, merkleVars>>

-----------------------------------------------------------------------------
(* Bounds of the model. *)

\* A raster has at most MaxPixels samples (height * width <= MaxPixels).
MaxPixels == 8
\* tile_size ranges over 1..MaxTileSize.
MaxTileSize == 2
\* The sample values a raster is built from.
Samples == {0, 1}

\* The basename of the FITS file being split.
FitsName == "a.fits"

-----------------------------------------------------------------------------
(* Helpers on images. *)

Height(img) == Len(img)
Width(img)  == IF Len(img) = 0 THEN 0 ELSE Len(img[1])

\* np.zeros((h, w), dtype=np.uint16)
Zeros(h, w) == [y \in 1..h |-> [x \in 1..w |-> 0]]

SetMin(S) == CHOOSE m \in S : \A v \in S : m <= v
SetMax(S) == CHOOSE m \in S : \A v \in S : m >= v

PixelValues(img) == {img[y][x] : y \in 1..Height(img), x \in 1..Width(img)}

\* image.tobytes() of a uint16 array: row-major, two bytes per sample, low
\* byte first.
RECURSIVE RowBytes(_)
RowBytes(row) ==
    IF row = <<>> THEN <<>>
    ELSE <<Head(row) % 256, Head(row) \div 256>> \o RowBytes(Tail(row))

RECURSIVE ToBytes(_)
ToBytes(img) ==
    IF img = <<>> THEN <<>> ELSE RowBytes(Head(img)) \o ToBytes(Tail(img))

\* hashlib.sha256(bytes).hexdigest(): a digest is modelled by the byte string
\* it is the digest of (SHA-256 taken as collision free).
calculate_hash(image) == [sha256 |-> ToBytes(image)]


-----------------------------------------------------------------------------
(* tileMaker.py: fits_to_tiles *)

\* image_data[i*T:(i+1)*T, j*T:(j+1)*T] (0-based i, j; rows first)
ExtractTile(img, i, j, T) ==
    [y \in 1..T |-> [x \in 1..T |-> img[i * T + y][j * T + x]]]

\* ((tile - tile_min) / (tile_max - tile_min) * 65535).astype(np.uint16):
\* the float64 quotient times 65535, truncated toward zero by astype.  For the
\* sample ranges of this model the float64 result truncates to the floor of
\* the exact quotient.
ScaleSample(v, tile_min, tile_max) ==
    ((v - tile_min) * 65535) \div (tile_max - tile_min)

\* A split that keeps a uniform tile as it is instead of substituting zeros.
UniformTileKept(tile, T) == tile

\* Line 124: the tile substituted for a tile of uniform value.
UniformTile(tile, T) == Zeros(T, T)

\* Lines 119-126: the normalized tile.
NormalizeTile(tile, T) ==
    LET tile_min == SetMin(PixelValues(tile))
        tile_max == SetMax(PixelValues(tile))
    IN  IF tile_max = tile_min
        THEN UniformTile(tile, T)
        ELSE [y \in 1..T |-> [x \in 1..T |->
                 ScaleSample(tile[y][x], tile_min, tile_max)]]

IsUniform(tile) == SetMax(PixelValues(tile)) = SetMin(PixelValues(tile))

\* f"{os.path.basename(fits_file)}_tile_{i}_{j}"
TileId(name, i, j) == [base |-> name, i |-> i, j |-> j]
\* os.path.basename(os.path.join(output_dir, f"{tile_id}.png"))
TileFilename(tile_id) == [stem |-> tile_id, ext |-> "png"]

\* The name of the top-level field holding the source file's basename.
NameField == "fits_file"

\* Lines 102-106: the metadata dictionary before the loop.
NewMetadata(name, T) ==
    (NameField :> name) @@ [tile_size |-> T, tiles |-> <<>>]

\* Lines 142-152: the metadata of tile (i, j).
TileMetadata(name, i, j, T, tile_hash) ==
    [tile_id  |-> TileId(name, i, j),
     filename |-> TileFilename(TileId(name, i, j)),
     hash     |-> tile_hash,
     position |-> [x_start |-> j * T, y_start |-> i * T,
                   x_end |-> (j + 1) * T, y_end |-> (i + 1) * T]]

\* cv2.imwrite(filename, image): a 16-bit single-channel PNG holds the
\* samples unchanged; an existing file is overwritten.
ImWrite(files, filename, image) ==
    [f \in (DOMAIN files) \cup {filename} |->
        IF f = filename THEN image ELSE files[f]]

\* Lines 115-153: the body of the loops for cell (i, j).
\* acc = [tiles, files, warnings].
TileBody(img, name, T, i, j, acc) ==
    LET tile            == ExtractTile(img, i, j, T)
        normalized_tile == NormalizeTile(tile, T)
        tile_hash       == calculate_hash(normalized_tile)
        meta            == TileMetadata(name, i, j, T, tile_hash)
    IN  [tiles    |-> Append(acc.tiles, meta),
         files    |-> ImWrite(acc.files, meta.filename, normalized_tile),
         warnings |-> IF IsUniform(tile)
                      THEN Append(acc.warnings, <<i, j>>)
                      ELSE acc.warnings]

\* Lines 113-114: for i in range(num_tiles_y): for j in range(num_tiles_x).
RECURSIVE TileLoop(_, _, _, _, _, _, _, _)
TileLoop(img, name, T, num_tiles_y, num_tiles_x, i, j, acc) ==
    IF i >= num_tiles_y THEN acc
    ELSE IF j >= num_tiles_x
         THEN TileLoop(img, name, T, num_tiles_y, num_tiles_x, i + 1, 0, acc)
         ELSE TileLoop(img, name, T, num_tiles_y, num_tiles_x, i, j + 1,
                       TileBody(img, name, T, i, j, acc))

NoFiles == [f \in {} |-> <<>>]

\* fits_to_tiles(fits_file, output_dir, tile_size) on a 2-D raster.
\* Line 157 divides by total_tiles before the metadata is saved.
fits_to_tiles ==
    /\ split_state = "ready"
    /\ LET height      == Height(image_data)
           width       == Width(image_data)
           num_tiles_x == width \div tile_size
           num_tiles_y == height \div tile_size
           total_tiles == num_tiles_x * num_tiles_y
           acc == TileLoop(image_data, FitsName, tile_size, num_tiles_y,
                           num_tiles_x, 0, 0,
                           [tiles |-> <<>>, files |-> tile_files,
                            warnings |-> <<>>])
           metadata == [NewMetadata(FitsName, tile_size)
                            EXCEPT !["tiles"] = acc.tiles]
       IN  /\ tile_files' = acc.files
           /\ warnings' = acc.warnings
           /\ IF total_tiles = 0
              THEN /\ split_state' = "ZeroDivisionError"
                   /\ UNCHANGED <<manifest_files, manifest_writer>>
              ELSE /\ split_state' = "done"
                   /\ manifest_files' = <<metadata>>
                   /\ manifest_writer' = "split"
    /\ UNCHANGED <<image_data, tile_size, damaged, full_image, rec_errors,
                   rec_state>>
    /\ UNCHANGED <<scanVars, merkleVars>>

-----------------------------------------------------------------------------
(* The output directory between a split and a reconstruction. *)

\* A pixel block of ones, the content of a replaced tile file.
Ones(h, w) == [y \in 1..h |-> [x \in 1..w |-> 1]]

\* The shapes a replaced tile file may have: every (h, w) over {1, T, T+1}
\* other than (T, T).
WrongShapes(T) == ({1, T, T + 1} \X {1, T, T + 1}) \ {<<T, T>>}

\* A tile file written by the split is deleted (or was never written:
\* cv2.imwrite reports a failed write by its return value, which line 137
\* ignores).  At most one file is damaged.
remove_tile_file ==
    /\ scan_state = "done"
    /\ rec_state = "ready"
    /\ damaged = {}
    /\ \E f \in DOMAIN tile_files :
          /\ tile_files' = [g \in (DOMAIN tile_files) \ {f} |-> tile_files[g]]
          /\ damaged' = {f}
    /\ UNCHANGED <<image_data, tile_size, split_state, warnings, manifest_files,
                   manifest_writer, full_image, rec_errors, rec_state>>
    /\ UNCHANGED <<scanVars, merkleVars>>

\* A tile file is replaced by an image whose pixel block is not
\* tile_size x tile_size.
replace_tile_file ==
    /\ scan_state = "done"
    /\ rec_state = "ready"
    /\ damaged = {}
    /\ \E f \in DOMAIN tile_files : \E s \in WrongShapes(tile_size) :
          /\ tile_files' = ImWrite(tile_files, f, Ones(s[1], s[2]))
          /\ damaged' = {f}
    /\ UNCHANGED <<image_data, tile_size, split_state, warnings, manifest_files,
                   manifest_writer, full_image, rec_errors, rec_state>>
    /\ UNCHANGED <<scanVars, merkleVars>>

\* The field names the manifest of section 6 of the specification has.
SpecManifestFields == {"source_name", "tile_size", "tiles"}
\* The field names of a tile record.
TileRecordFields == {"tile_id", "filename", "hash", "position"}
PositionFields == {"x_start", "y_start", "x_end", "y_end"}

\* The manifest m with its name field called `field`.
WithNameField(m, field) ==
    (field :> FitsName) @@ [tile_size |-> m["tile_size"], tiles |-> m["tiles"]]

\* Another implementation wrote the manifest of the same tiles, naming the
\* top-level fields `field`, tile_size and tiles.
other_implementation_manifest ==
    /\ scan_state = "done"
    /\ rec_state = "ready"
    /\ manifest_writer = "split"
    /\ \E field \in {"source_name", "fits_file"} :
          manifest_files' = <<WithNameField(manifest_files[1], field)>>
    /\ manifest_writer' = "other"
    /\ UNCHANGED <<image_data, tile_size, split_state, warnings, tile_files,
                   damaged, full_image, rec_errors, rec_state>>
    /\ UNCHANGED <<scanVars, merkleVars>>

-----------------------------------------------------------------------------
(* reconstruct.py: reconstruct_image_from_tiles *)

\* A reconstructor that reads the name field of section 6 of the
\* specification.
SpecNameField == "source_name"

\* The field line 91 reads the source file's basename from.
ReconstructNameField == "fits_file"

SeqMax(s) == SetMax({s[k] : k \in 1..Len(s)})

\* full_image[y_start:y_end, x_start:x_end] = tile_image succeeds when numpy
\* can broadcast tile_image to the shape of the slice: each dimension of
\* tile_image equals the slice's or is 1.
CanAssign(tile_image, pos) ==
    /\ Height(tile_image) \in {1, pos.y_end - pos.y_start}
    /\ Width(tile_image) \in {1, pos.x_end - pos.x_start}

\* An assignment that writes the tile's columns as rows.
PlaceTileTransposed(canvas, pos, tile_image) ==
    [y \in 1..Height(canvas) |-> [x \in 1..Width(canvas) |->
        IF /\ pos.y_start < y /\ y <= pos.y_end
           /\ pos.x_start < x /\ x <= pos.x_end
        THEN tile_image[IF Height(tile_image) = 1 THEN 1 ELSE x - pos.x_start]
                       [IF Width(tile_image) = 1 THEN 1 ELSE y - pos.y_start]
        ELSE canvas[y][x]]]

\* The canvas after the assignment of line 86 (tile_image broadcast).
PlaceTile(canvas, pos, tile_image) ==
    [y \in 1..Height(canvas) |-> [x \in 1..Width(canvas) |->
        IF /\ pos.y_start < y /\ y <= pos.y_end
           /\ pos.x_start < x /\ x <= pos.x_end
        THEN tile_image[IF Height(tile_image) = 1 THEN 1 ELSE y - pos.y_start]
                       [IF Width(tile_image) = 1 THEN 1 ELSE x - pos.x_start]
        ELSE canvas[y][x]]]

\* Lines 75-88: the loop over the tiles.  acc = [canvas, errors].
\* cv2.imread returns None for a file it cannot read (line 84 raises);
\* every exception of lines 83-86 is logged by line 88.
RECURSIVE PlaceLoop(_, _, _, _)
PlaceLoop(tiles, files, k, acc) ==
    IF k > Len(tiles) THEN acc
    ELSE LET tile == tiles[k]
             readable == tile.filename \in DOMAIN files
         IN  IF readable /\ CanAssign(files[tile.filename], tile.position)
             THEN PlaceLoop(tiles, files, k + 1,
                      [acc EXCEPT !.canvas =
                          PlaceTile(acc.canvas, tile.position,
                                    files[tile.filename])])
             ELSE PlaceLoop(tiles, files, k + 1,
                      [acc EXCEPT !.errors = Append(acc.errors, tile.filename)])

\* A tile record holding every field lines 66-67 and 76-80 read.
ReadableTileRecord(tile) ==
    /\ {"filename", "position"} \subseteq DOMAIN tile
    /\ PositionFields \subseteq DOMAIN tile.position

\* reconstruct_image_from_tiles(metadata_file, output_dir) on the manifest of
\* the output directory.
reconstruct_image_from_tiles ==
    /\ scan_state = "done"
    /\ rec_state = "ready"
    /\ LET metadata == manifest_files[1]
       IN  IF \/ ~ ({"tile_size", "tiles"} \subseteq DOMAIN metadata)
              \/ \E k \in 1..Len(metadata["tiles"]) :
                     ~ ReadableTileRecord(metadata["tiles"][k])
           THEN /\ rec_state' = "KeyError"
                /\ UNCHANGED <<full_image, rec_errors>>
           ELSE LET tiles  == metadata["tiles"]
                IN  IF tiles = <<>>
                    THEN /\ rec_state' = "ValueError"
                         /\ UNCHANGED <<full_image, rec_errors>>
                    ELSE LET width  == SeqMax([k \in 1..Len(tiles) |->
                                                  tiles[k].position.x_end])
                             height == SeqMax([k \in 1..Len(tiles) |->
                                                  tiles[k].position.y_end])
                             acc == PlaceLoop(tiles, tile_files, 1,
                                        [canvas |-> Zeros(height, width),
                                         errors |-> <<>>])
                         IN  /\ full_image' = acc.canvas
                             /\ rec_errors' = acc.errors
                             /\ rec_state' =
                                   IF ReconstructNameField \in DOMAIN metadata
                                   THEN "saved" ELSE "KeyError"
    /\ UNCHANGED <<image_data, tile_size, split_state, warnings, tile_files,
                   manifest_files, manifest_writer, damaged>>
    /\ UNCHANGED <<scanVars, merkleVars>>

-----------------------------------------------------------------------------
(* tileMaker.py: find_duplicates *)

\* A file of the walked tree whose name ends in _metadata.json is
\* [readable, json]: json is the document json.load returns; an unreadable
\* file, or one that is not valid JSON, has readable = FALSE.
ManifestFile(doc) == [readable |-> TRUE, json |-> doc]
BrokenFile == [readable |-> FALSE, json |-> <<>>]

\* A scan that remembers the latest tile seen with a hash, not the first.
ScanTileOverwrite(tile, st) ==
    IF ~ ({"hash", "tile_id", "filename"} \subseteq DOMAIN tile)
    THEN [st EXCEPT !.raised = TRUE]
    ELSE [st EXCEPT
            !.duplicates =
                IF tile.hash \in DOMAIN st.hash_dict
                THEN Append(@, <<tile.tile_id, tile.filename,
                                 st.hash_dict[tile.hash].tile_id,
                                 st.hash_dict[tile.hash].filename>>)
                ELSE @,
            !.hash_dict =
                [h \in (DOMAIN @) \cup {tile.hash} |->
                    IF h = tile.hash
                    THEN [tile_id |-> tile.tile_id, filename |-> tile.filename]
                    ELSE @[h]]]

\* Lines 190-195: one tile record against the running state
\* st = [hash_dict, duplicates, raised].  A missing key raises KeyError at
\* the subscript that reads it: tile["hash"] (190), tile["tile_id"] (191),
\* tile["filename"] (193 or 195, before the append or the insert happens).
ScanTile(tile, st) ==
    IF ~ ({"hash", "tile_id"} \subseteq DOMAIN tile)
    THEN [st EXCEPT !.raised = TRUE]
    ELSE LET tile_hash == tile.hash
             tile_id   == tile.tile_id
         IN  IF tile_hash \in DOMAIN st.hash_dict
             THEN IF "filename" \notin DOMAIN tile
                  THEN [st EXCEPT !.raised = TRUE]
                  ELSE [st EXCEPT !.duplicates =
                           Append(@, <<tile_id, tile.filename,
                                       st.hash_dict[tile_hash].tile_id,
                                       st.hash_dict[tile_hash].filename>>)]
             ELSE IF "filename" \notin DOMAIN tile
                  THEN [st EXCEPT !.raised = TRUE]
                  ELSE [st EXCEPT !.hash_dict =
                           [h \in (DOMAIN @) \cup {tile_hash} |->
                               IF h = tile_hash
                               THEN [tile_id |-> tile_id,
                                     filename |-> tile.filename]
                               ELSE @[h]]]

\* Line 189: for tile in metadata.get("tiles", []), ended by the first
\* exception.
RECURSIVE ScanTiles(_, _, _)
ScanTiles(tiles, k, st) ==
    IF k > Len(tiles) \/ st.raised THEN st
    ELSE ScanTiles(tiles, k + 1, ScanTile(tiles[k], st))

\* Lines 186-197: one metadata file.  st = [hash_dict, duplicates, errors];
\* the except clause logs the error and keeps what the loop did before it.
ScanFile(file, n, st) ==
    IF ~ file.readable
    THEN [st EXCEPT !.errors = Append(@, n)]
    ELSE LET tiles == IF "tiles" \in DOMAIN file.json
                      THEN file.json["tiles"] ELSE <<>>
             r == ScanTiles(tiles, 1, [hash_dict  |-> st.hash_dict,
                                       duplicates |-> st.duplicates,
                                       raised     |-> FALSE])
         IN  [hash_dict  |-> r.hash_dict,
              duplicates |-> r.duplicates,
              errors     |-> IF r.raised THEN Append(st.errors, n)
                             ELSE st.errors]

\* Lines 179-197: the files in the order os.walk yields them.
RECURSIVE ScanFiles(_, _, _, _)
ScanFiles(files, order, k, st) ==
    IF k > Len(order) THEN st
    ELSE ScanFiles(files, order, k + 1, ScanFile(files[order[k]], order[k], st))

NoHashes == [h \in {} |-> <<>>]

FindDuplicates(files, order) ==
    ScanFiles(files, order, 1,
              [hash_dict |-> NoHashes, duplicates |-> <<>>, errors |-> <<>>])

\* The orders os.walk may yield n files in: os.walk lists a directory in the
\* order the file system enumerates it, and nothing sorts it.
WalkOrders(n) ==
    {o \in [1..n -> 1..n] : \A a, b \in 1..n : a # b => o[a] # o[b]}

\* find_duplicates(metadata_dir) over the corpus.  Each run starts from an
\* empty hash_dict and duplicates list.
find_duplicates ==
    /\ corpus # <<>>
    /\ \E order \in WalkOrders(Len(corpus)) :
          LET r == FindDuplicates(corpus, order)
          IN  /\ walk_order' = order
              /\ hash_dict' = r.hash_dict
              /\ duplicates' = r.duplicates
              /\ scan_errors' = r.errors
              /\ scan_state' = "done"
    /\ UNCHANGED corpus
    /\ UNCHANGED <<tileVars, merkleVars>>

\* find_duplicates(output_directory) after a split: the tree holds the
\* manifest the split wrote.  main (lines 222-231) calls it as soon as
\* fits_to_tiles has returned; the output directory is read by
\* reconstruct.py, and touched by anything else, after main has ended.
find_duplicates_output ==
    /\ split_state = "done"
    /\ scan_state = "ready"
    /\ LET files == [k \in 1..Len(manifest_files) |->
                        ManifestFile(manifest_files[k])]
       IN  \E order \in WalkOrders(Len(files)) :
              LET r == FindDuplicates(files, order)
              IN  /\ corpus' = files
                  /\ walk_order' = order
                  /\ hash_dict' = r.hash_dict
                  /\ duplicates' = r.duplicates
                  /\ scan_errors' = r.errors
                  /\ scan_state' = "done"
    /\ UNCHANGED <<tileVars, merkleVars>>

-----------------------------------------------------------------------------
(* Initial states and specifications. *)

TilesIdle ==
    /\ image_data = <<>>
    /\ tile_size = 1
    /\ split_state = "idle"
    /\ warnings = <<>>
    /\ tile_files = NoFiles
    /\ manifest_files = <<>>
    /\ manifest_writer = "none"
    /\ damaged = {}
    /\ full_image = <<>>
    /\ rec_errors = <<>>
    /\ rec_state = "ready"

ScanIdle ==
    /\ corpus = <<>>
    /\ walk_order = <<>>
    /\ hash_dict = NoHashes
    /\ duplicates = <<>>
    /\ scan_errors = <<>>
    /\ scan_state = "ready"

MerkleIdle ==
    /\ hashes = <<>>
    /\ level = <<>>
    /\ new_hashes = <<>>
    /\ idx = 0
    /\ depth = 0
    /\ merkle_state = "idle"
    /\ merkle_root = <<>>
    /\ fits_files = <<>>

\* The 2-D rasters of at most MaxPixels samples.
Shapes ==
    {s \in (1..MaxPixels) \X (1..MaxPixels) : s[1] * s[2] <= MaxPixels}
Rasters == UNION {[1..s[1] -> [1..s[2] -> Samples]] : s \in Shapes}

InitTiles ==
    /\ image_data \in Rasters
    /\ tile_size \in 1..MaxTileSize
    /\ split_state = "ready"
    /\ warnings = <<>>
    /\ tile_files = NoFiles
    /\ manifest_files = <<>>
    /\ manifest_writer = "none"
    /\ damaged = {}
    /\ full_image = <<>>
    /\ rec_errors = <<>>
    /\ rec_state = "ready"
    /\ ScanIdle
    /\ MerkleIdle

\* Split, scan, and reconstruction of what the split (or another
\* implementation) wrote.
NextTiles ==
    \/ fits_to_tiles
    \/ find_duplicates_output
    \/ other_implementation_manifest
    \/ reconstruct_image_from_tiles

SpecTiles == InitTiles /\ [][NextTiles]_vars

\* Split, scan, and reconstruction from an output directory in which one
\* tile file was removed or replaced.
NextDamage ==
    \/ fits_to_tiles
    \/ find_duplicates_output
    \/ remove_tile_file
    \/ replace_tile_file
    \/ reconstruct_image_from_tiles

SpecDamage == InitTiles /\ [][NextDamage]_vars

\* The samples of the rasters whose normalization is examined: 0..MaxSample.
MaxSample == 4

\* Rasters of exactly one tile: a tile_size x tile_size raster per tile_size.
InitNormalize ==
    /\ tile_size \in 1..MaxTileSize
    /\ image_data \in [1..tile_size -> [1..tile_size -> 0..MaxSample]]
    /\ split_state = "ready"
    /\ warnings = <<>>
    /\ tile_files = NoFiles
    /\ manifest_files = <<>>
    /\ manifest_writer = "none"
    /\ damaged = {}
    /\ full_image = <<>>
    /\ rec_errors = <<>>
    /\ rec_state = "ready"
    /\ ScanIdle
    /\ MerkleIdle

NextNormalize == fits_to_tiles

SpecNormalize == InitNormalize /\ [][NextNormalize]_vars

\* The corpora of find_duplicates: up to MaxManifests manifests of up to
\* MaxTiles tile records each, the record hashes drawn from HashValues.
MaxManifests == 2
MaxTiles == 2
HashValues == {"ha", "hb"}

HashLists == UNION {[1..t -> HashValues] : t \in 0..MaxTiles}

\* The manifest a splitter writes for source n whose tiles hash to hs.
ManifestOf(n, hs) ==
    [NewMetadata(n, 1) EXCEPT !["tiles"] =
        [k \in 1..Len(hs) |-> TileMetadata(n, 0, k - 1, 1, hs[k])]]

WithoutField(r, field) == [f \in (DOMAIN r) \ {field} |-> r[f]]

\* The defects a corpus may have: manifest m is unreadable (or no JSON), has
\* no tiles field, or its k-th tile record lacks one field.
Defects(hss) ==
    {[kind |-> kd, m |-> m, k |-> 0, field |-> ""] :
        kd \in {"unreadable", "no_tiles"}, m \in 1..Len(hss)}
    \cup {[kind |-> "tile_field", m |-> p[1], k |-> p[2], field |-> fd] :
             p \in {q \in (1..Len(hss)) \X (1..MaxTiles) : q[2] <= Len(hss[q[1]])},
             fd \in {"hash", "tile_id", "filename"}}

CorpusFile(n, hs, d) ==
    IF d.m # n THEN ManifestFile(ManifestOf(n, hs))
    ELSE IF d.kind = "unreadable" THEN BrokenFile
    ELSE IF d.kind = "no_tiles"
         THEN ManifestFile(WithoutField(ManifestOf(n, hs), "tiles"))
    ELSE ManifestFile([ManifestOf(n, hs) EXCEPT !["tiles"][d.k] =
                          WithoutField(@, d.field)])

ScanReady ==
    /\ walk_order = <<>>
    /\ hash_dict = NoHashes
    /\ duplicates = <<>>
    /\ scan_errors = <<>>
    /\ scan_state = "ready"

\* A corpus of manifests as splitters write them.
InitScan ==
    /\ \E c \in 1..MaxManifests : \E hss \in [1..c -> HashLists] :
          corpus = [n \in 1..c |-> ManifestFile(ManifestOf(n, hss[n]))]
    /\ ScanReady
    /\ TilesIdle
    /\ MerkleIdle

NextScan == find_duplicates

SpecScan == InitScan /\ [][NextScan]_vars

\* A corpus with one defect.
InitDefect ==
    /\ \E c \in 1..MaxManifests : \E hss \in [1..c -> HashLists] :
          \E d \in Defects(hss) :
              corpus = [n \in 1..c |-> CorpusFile(n, hss[n], d)]
    /\ ScanReady
    /\ TilesIdle
    /\ MerkleIdle

SpecDefect == InitDefect /\ [][NextScan]_vars

-----------------------------------------------------------------------------
(* grayscaler.py: hash_file_name, create_merkle_root,                      *)
(* process_fits_to_grayscale                                               *)

\* A string is a sequence of symbols and + is \o.  hash_file_name(content)
\* is the hex digest of content: a digest is modelled as a string of one
\* symbol that stands for the digested content (SHA-256 taken as collision
\* free), so that the concatenation of two digests splits in one way only,
\* as the concatenation of two 64-character digests does.
hash_file_name(content) == << content >>

\* The contents of the processed images (processed_data.tobytes()).
ImageA == << <<>> >>
ImageB == << <<>>, <<>> >>
\* Line 115: the image hashes a batch is made of.
LeafHashes == {hash_file_name(ImageA), hash_file_name(ImageB)}

\* A hash list has at most MaxHashes elements; the driver is given at most
\* MaxFiles files.
MaxHashes == 4
MaxFiles == 3
\* The interpreter's limit on nested calls (sys.getrecursionlimit()).
RecursionLimit == 6

\* A pairing that combines an unpaired last element with a copy of itself.
CombineDuplicateLast(lvl, i) ==
    hash_file_name(lvl[i + 1] \o (IF i + 1 < Len(lvl) THEN lvl[i + 2]
                                                      ELSE lvl[i + 1]))

\* Line 95: the combined hash of the pair starting at (0-based) index i.
Combine(lvl, i) ==
    hash_file_name(lvl[i + 1] \o (IF i + 1 < Len(lvl) THEN lvl[i + 2] ELSE <<>>))

\* Lines 91-93: a call of create_merkle_root(lvl) made with `d` frames
\* already on the stack.
EnterMerkle(lvl, d) ==
    IF d + 1 > RecursionLimit
    THEN /\ merkle_state' = "RecursionError"
         /\ UNCHANGED <<level, new_hashes, idx, depth, merkle_root>>
    ELSE /\ depth' = d + 1
         /\ level' = lvl
         /\ IF Len(lvl) = 1
            THEN \* every frame returns the value of the innermost call
                 /\ merkle_state' = "returned"
                 /\ merkle_root' = lvl[1]
                 /\ UNCHANGED <<new_hashes, idx>>
            ELSE /\ merkle_state' = "loop"
                 /\ new_hashes' = <<>>
                 /\ idx' = 0
                 /\ UNCHANGED merkle_root

\* A caller holding a hash list calls create_merkle_root(hashes).
create_merkle_root ==
    /\ merkle_state = "idle"
    /\ fits_files = <<>>
    /\ EnterMerkle(hashes, 0)
    /\ UNCHANGED <<hashes, fits_files>>
    /\ UNCHANGED <<tileVars, scanVars>>

\* A loop that visits every index instead of every other one.
NextIndexByOne(i) == i + 1

\* Line 94: range(0, len(hashes), 2) steps the index by two.
NextIndex(i) == i + 2

\* Lines 94-96: one iteration of for i in range(0, len(hashes), 2).
merkle_loop ==
    /\ merkle_state = "loop"
    /\ idx < Len(level)
    /\ new_hashes' = Append(new_hashes, Combine(level, idx))
    /\ idx' = NextIndex(idx)
    /\ UNCHANGED <<hashes, level, depth, merkle_state, merkle_root, fits_files>>
    /\ UNCHANGED <<tileVars, scanVars>>

\* Line 97: the loop is over; return create_merkle_root(new_hashes).
merkle_recurse ==
    /\ merkle_state = "loop"
    /\ idx >= Len(level)
    /\ EnterMerkle(new_hashes, depth)
    /\ UNCHANGED <<hashes, fits_files>>
    /\ UNCHANGED <<tileVars, scanVars>>

\* Lines 107-133: the hashes of the first num_images files that hold data.
RECURSIVE ImageHashes(_, _)
ImageHashes(files, n) ==
    IF n = 0 \/ files = <<>> THEN <<>>
    ELSE (IF Head(files).has_data
          THEN <<hash_file_name(Head(files).data)>> ELSE <<>>)
         \o ImageHashes(Tail(files), n - 1)

\* process_fits_to_grayscale(fits_files, output_directory, config), up to
\* its call of create_merkle_root on line 135.
process_fits_to_grayscale ==
    /\ merkle_state = "idle"
    /\ fits_files # <<>>
    /\ \E configured \in 0..Len(fits_files) :
          LET num_images == IF configured > 0 THEN configured
                            ELSE Len(fits_files)
              image_hashes == ImageHashes(fits_files, num_images)
          IN  /\ hashes' = image_hashes
              /\ EnterMerkle(image_hashes, 0)
    /\ UNCHANGED fits_files
    /\ UNCHANGED <<tileVars, scanVars>>

\* A FITS file: hdul[0].data is None, or holds an image.
FitsFiles ==
    {[has_data |-> FALSE, data |-> <<>>]}
    \cup {[has_data |-> TRUE, data |-> d] : d \in {ImageA, ImageB}}

MerkleInputs == UNION {[1..n -> LeafHashes] : n \in 0..MaxHashes}
FileLists == UNION {[1..n -> FitsFiles] : n \in 1..MaxFiles}

InitMerkle ==
    /\ \/ hashes \in MerkleInputs /\ fits_files = <<>>
       \/ hashes = <<>> /\ fits_files \in FileLists
    /\ level = <<>>
    /\ new_hashes = <<>>
    /\ idx = 0
    /\ depth = 0
    /\ merkle_state = "idle"
    /\ merkle_root = <<>>
    /\ TilesIdle
    /\ ScanIdle

NextMerkle ==
    \/ create_merkle_root
    \/ process_fits_to_grayscale
    \/ merkle_loop
    \/ merkle_recurse

SpecMerkle == InitMerkle /\ [][NextMerkle]_vars

\* The interpreter runs a call it has started to its end: no step of
\* create_merkle_root waits on anything.
SpecMerkleFair == SpecMerkle /\ WF_vars(NextMerkle)

-----------------------------------------------------------------------------
(* Properties of the split, the reconstruction and the scan of one raster  *)
(* (SpecTiles, SpecDamage).                                                *)

\* The manifest in the output directory and its tile records.
Manifest == manifest_files[1]
ManifestTiles == Manifest["tiles"]

\* canvas[y_start:y_end, x_start:x_end]
Block(canvas, pos) ==
    [y \in 1..(pos.y_end - pos.y_start) |->
        [x \in 1..(pos.x_end - pos.x_start) |->
            canvas[pos.y_start + y][pos.x_start + x]]]

Rows == Height(image_data) \div tile_size
Cols == Width(image_data) \div tile_size

\* Two rectangles share no pixel.
Disjoint(p, q) ==
    \/ p.x_end <= q.x_start \/ q.x_end <= p.x_start
    \/ p.y_end <= q.y_start \/ q.y_end <= p.y_start

\* The manifest holds Rows * Cols records in row-major order, record (r, c)
\* at the rectangle (c*T, r*T, (c+1)*T, (r+1)*T).
GridManifest ==
    /\ Len(ManifestTiles) = Rows * Cols
    /\ \A r \in 0..(Rows - 1) : \A c \in 0..(Cols - 1) :
          ManifestTiles[r * Cols + c + 1].position =
              [x_start |-> c * tile_size, y_start |-> r * tile_size,
               x_end |-> (c + 1) * tile_size, y_end |-> (r + 1) * tile_size]
    /\ \A a, b \in 1..Len(ManifestTiles) :
          a # b => Disjoint(ManifestTiles[a].position, ManifestTiles[b].position)
    /\ \A a \in 1..Len(ManifestTiles) :
          /\ ManifestTiles[a].position.x_end <= Width(image_data)
          /\ ManifestTiles[a].position.y_end <= Height(image_data)

\* C1: for every 2-D raster and every tile size T >= 1, rasters narrower or
\* lower than T included, the split completes and persists a manifest of
\* exactly floor(W/T) * floor(H/T) records in row-major order, record (r, c)
\* at (c*T, r*T, (c+1)*T, (r+1)*T), the rectangles disjoint and inside the
\* raster.
C1_SplitPersistsGrid ==
    split_state # "ready" =>
        /\ split_state = "done"
        /\ Len(manifest_files) = 1
        /\ GridManifest

\* What holds of the code: whenever the split does persist a manifest, the
\* manifest is that grid.
SplitGridWhenDone ==
    split_state = "done" => Len(manifest_files) = 1 /\ GridManifest

\* A tile file as the protocol expects it: readable, tile_size x tile_size.
GoodTileFile(tile) ==
    /\ tile.filename \in DOMAIN tile_files
    /\ Height(tile_files[tile.filename]) = tile_size
    /\ Width(tile_files[tile.filename]) = tile_size

Occurrences(s, e) == Cardinality({k \in 1..Len(s) : s[k] = e})

\* C3: when the reconstruction meets a tile file that is unreadable or whose
\* pixel block is not tile_size x tile_size, it records one error for that
\* tile, leaves exactly that tile's rectangle zero, copies every other tile
\* into its rectangle and persists the canvas.
C3_BadTileZeroFilled ==
    rec_state # "ready" =>
        /\ rec_state = "saved"
        /\ \A k \in 1..Len(ManifestTiles) :
              LET tile == ManifestTiles[k]
                  rect == Block(full_image, tile.position)
              IN  IF GoodTileFile(tile)
                  THEN /\ rect = tile_files[tile.filename]
                       /\ Occurrences(rec_errors, tile.filename) = 0
                  ELSE /\ rect = Zeros(tile_size, tile_size)
                       /\ Occurrences(rec_errors, tile.filename) = 1

\* What holds of the code for a tile file that cannot be read at all.
MissingTileZeroFilled ==
    rec_state # "ready" =>
        /\ rec_state = "saved"
        /\ \A k \in 1..Len(ManifestTiles) :
              LET tile == ManifestTiles[k]
                  rect == Block(full_image, tile.position)
              IN  /\ tile.filename \notin DOMAIN tile_files =>
                        /\ rect = Zeros(tile_size, tile_size)
                        /\ Occurrences(rec_errors, tile.filename) = 1
                  /\ GoodTileFile(tile) =>
                        /\ rect = tile_files[tile.filename]
                        /\ Occurrences(rec_errors, tile.filename) = 0

\* The raster's sides are exact multiples of tile_size.
ExactMultiples ==
    /\ Width(image_data) % tile_size = 0
    /\ Height(image_data) % tile_size = 0

\* C5: for a raster whose sides are exact multiples of tile_size, split and
\* then reconstruct on the produced manifest and tile files yields a canvas
\* of the raster's size in which the block at every record's rectangle is
\* the normalized tile the split wrote and hashed.
C5_RoundTrip ==
    (rec_state # "ready" /\ manifest_writer = "split" /\ ExactMultiples) =>
        /\ rec_state = "saved"
        /\ rec_errors = <<>>
        /\ Height(full_image) = Height(image_data)
        /\ Width(full_image) = Width(image_data)
        /\ \A k \in 1..Len(ManifestTiles) :
              LET tile == ManifestTiles[k]
                  rect == Block(full_image, tile.position)
              IN  /\ rect = tile_files[tile.filename]
                  /\ rect = NormalizeTile(
                                ExtractTile(image_data, tile.tile_id.i,
                                            tile.tile_id.j, tile_size),
                                tile_size)
                  /\ calculate_hash(rect) = tile.hash

\* A round trip of a raster of several tiles, one of them not uniform and
\* not symmetric.
C5_Witness ==
    /\ rec_state = "saved"
    /\ manifest_writer = "split"
    /\ ExactMultiples
    /\ Len(ManifestTiles) >= 2
    /\ \E k \in 1..Len(ManifestTiles) :
          LET rect == Block(full_image, ManifestTiles[k].position)
          IN  /\ tile_size >= 2
              /\ rect[1][2] # rect[2][1]

\* The field names fits_to_tiles writes and the readers read.
CodeManifestFields == {"fits_file", "tile_size", "tiles"}

\* Every tile record of manifest m has exactly the fields of a tile record.
TileRecordsExact(m) ==
    \A k \in 1..Len(m["tiles"]) :
        /\ DOMAIN m["tiles"][k] = TileRecordFields
        /\ DOMAIN m["tiles"][k].position = PositionFields

\* C8 as stated: a manifest persisted by the split has exactly the top-level
\* fields source_name, tile_size and tiles, and a manifest with exactly
\* these fields is reconstructed without a missing-field failure.
C8_SpecFieldNames ==
    /\ manifest_writer = "split" =>
          /\ DOMAIN Manifest = SpecManifestFields
          /\ TileRecordsExact(Manifest)
    /\ (/\ rec_state # "ready"
        /\ DOMAIN Manifest = SpecManifestFields
        /\ TileRecordsExact(Manifest)) => rec_state # "KeyError"

\* C8 as amended: a manifest persisted by the split has exactly the
\* top-level fields fits_file, tile_size and tiles, each tile record exactly
\* {tile_id, filename, hash, position:{x_start, y_start, x_end, y_end}}; a
\* manifest with exactly these fields, whoever wrote it, is reconstructed
\* without a missing-field failure, and scanned without an error.
C8_CodeFieldNames ==
    /\ manifest_writer = "split" =>
          /\ DOMAIN Manifest = CodeManifestFields
          /\ TileRecordsExact(Manifest)
    /\ (/\ rec_state # "ready"
        /\ DOMAIN Manifest = CodeManifestFields
        /\ TileRecordsExact(Manifest)) => rec_state = "saved"
    /\ scan_state = "done" => scan_errors = <<>>

\* A manifest with the code's field names written by another implementation
\* has been reconstructed.
C8_Witness ==
    /\ manifest_writer = "other"
    /\ DOMAIN Manifest = CodeManifestFields
    /\ rec_state = "saved"
    /\ scan_state = "done"

\* The records of the degenerate tiles (min = max within the tile).
Degenerate(tile) ==
    IsUniform(ExtractTile(image_data, tile.tile_id.i, tile.tile_id.j, tile_size))
DegenerateRecords == {k \in 1..Len(ManifestTiles) : Degenerate(ManifestTiles[k])}

\* The duplicate pairs whose later tile is a degenerate tile.
DegeneratePairs ==
    {p \in 1..Len(duplicates) :
        \E k \in DegenerateRecords : duplicates[p][1] = ManifestTiles[k].tile_id}

\* C10: a raster yielding k >= 1 degenerate tiles gets exactly k warnings and
\* an all-zero tile for each, the split does not abort, the k tiles share one
\* content hash, and the scan of that manifest reports exactly k - 1
\* duplicate pairs among them, each naming the first degenerate tile in
\* row-major order as first_seen.
C10_DegenerateTiles ==
    (scan_state = "done" /\ DegenerateRecords # {}) =>
        LET first == SetMin(DegenerateRecords)
        IN  /\ split_state = "done"
            /\ Len(warnings) = Cardinality(DegenerateRecords)
            /\ \A k \in DegenerateRecords :
                  /\ tile_files[ManifestTiles[k].filename] =
                        Zeros(tile_size, tile_size)
                  /\ ManifestTiles[k].hash = ManifestTiles[first].hash
                  /\ Occurrences(warnings, <<ManifestTiles[k].tile_id.i,
                                             ManifestTiles[k].tile_id.j>>) = 1
            /\ Cardinality(DegeneratePairs) = Cardinality(DegenerateRecords) - 1
            /\ \A p \in DegeneratePairs :
                  /\ duplicates[p][3] = ManifestTiles[first].tile_id
                  /\ duplicates[p][4] = ManifestTiles[first].filename
                  /\ duplicates[p][1] # ManifestTiles[first].tile_id

\* A manifest of two tiles of several pixels, both degenerate, from uniform
\* tiles of different values, has been scanned.
C10_Witness ==
    /\ scan_state = "done"
    /\ tile_size >= 2
    /\ Cardinality(DegenerateRecords) >= 2
    /\ \E a, b \in DegenerateRecords :
          ExtractTile(image_data, ManifestTiles[a].tile_id.i,
                      ManifestTiles[a].tile_id.j, tile_size)
          # ExtractTile(image_data, ManifestTiles[b].tile_id.i,
                        ManifestTiles[b].tile_id.j, tile_size)
    /\ Len(duplicates) = Cardinality(DegenerateRecords) - 1

-----------------------------------------------------------------------------
(* Properties of find_duplicates over a corpus (SpecScan). *)

\* The tile records of a file as find_duplicates iterates them.
FileTiles(file) ==
    IF file.readable /\ "tiles" \in DOMAIN file.json
    THEN file.json["tiles"] ELSE <<>>

\* A manifest that is unreadable, or holds a tile record lacking hash,
\* tile_id or filename.
BadManifest(file) ==
    \/ ~ file.readable
    \/ \E k \in 1..Len(FileTiles(file)) :
          ~ ({"hash", "tile_id", "filename"} \subseteq DOMAIN FileTiles(file)[k])

WellFormedManifest(file) ==
    /\ file.readable
    /\ "tiles" \in DOMAIN file.json
    /\ ~ BadManifest(file)

WellFormedCorpus == \A n \in 1..Len(corpus) : WellFormedManifest(corpus[n])

\* The tile records of the files of `order`, in processing order.
RECURSIVE Processed(_, _)
Processed(files, order) ==
    IF order = <<>> THEN <<>>
    ELSE FileTiles(files[Head(order)]) \o Processed(files, Tail(order))

\* The records of `flat` whose hash is that of an earlier record, and the
\* earliest record with the hash of record k.
LaterOccurrences(flat) ==
    {k \in 1..Len(flat) : \E m \in 1..(k - 1) : flat[m].hash = flat[k].hash}
FirstOccurrence(flat, k) ==
    SetMin({m \in 1..k : flat[m].hash = flat[k].hash})

\* dups is the list of one pair per later occurrence, in processing order,
\* each naming the earliest record with its hash as first_seen.
IsDuplicateList(dups, flat) ==
    LET later == LaterOccurrences(flat)
    IN  /\ Len(dups) = Cardinality(later)
        /\ \A k \in later :
              LET p == Cardinality({m \in later : m <= k})
                  f == FirstOccurrence(flat, k)
              IN  dups[p] = <<flat[k].tile_id, flat[k].filename,
                              flat[f].tile_id, flat[f].filename>>

\* C2: over a corpus of well-formed manifests the duplicate list holds
\* exactly one pair per tile record whose hash is that of a record processed
\* earlier, naming the earliest-processed record with that hash as
\* first_seen, the pairs in processing order, and is empty when all hashes
\* are distinct.
C2_DuplicateList ==
    (scan_state = "done" /\ WellFormedCorpus) =>
        LET flat == Processed(corpus, walk_order)
        IN  /\ IsDuplicateList(duplicates, flat)
            /\ (\A a, b \in 1..Len(flat) : a # b => flat[a].hash # flat[b].hash)
                  => duplicates = <<>>

\* A well-formed corpus in which one hash occurs three times has been
\* scanned: the two pairs name the same first_seen record.
C2_Witness ==
    /\ scan_state = "done"
    /\ WellFormedCorpus
    /\ Len(corpus) >= 2
    /\ Len(duplicates) >= 2
    /\ \E p, q \in 1..Len(duplicates) :
          /\ p < q
          /\ duplicates[p][3] = duplicates[q][3]
          /\ duplicates[p][1] # duplicates[q][1]

\* The files of walk_order that are not bad.
GoodOrder == SelectSeq(walk_order, LAMBDA n : ~ BadManifest(corpus[n]))

\* C4: a manifest that is unreadable or malformed is recorded as an error
\* and skipped as a whole: the result is that of scanning the corpus with
\* the bad manifests removed.
C4_BadManifestSkipped ==
    scan_state = "done" =>
        LET r == FindDuplicates(corpus, GoodOrder)
        IN  /\ duplicates = r.duplicates
            /\ hash_dict = r.hash_dict
            /\ \A n \in 1..Len(corpus) :
                  BadManifest(corpus[n]) <=> Occurrences(scan_errors, n) = 1

\* What holds of the code: every bad manifest is logged once, and no other.
BadManifestLogged ==
    scan_state = "done" =>
        \A n \in 1..Len(corpus) :
            Occurrences(scan_errors, n) = (IF BadManifest(corpus[n]) THEN 1 ELSE 0)

\* C9: two runs of the scan over the same corpus return the same ordered
\* list of duplicate pairs, whatever order the file system enumerates the
\* files in.
C9_ScanDeterministic ==
    [][(scan_state = "done" /\ scan_state' = "done") => duplicates' = duplicates]_vars

-----------------------------------------------------------------------------
(* Properties of create_merkle_root (SpecMerkle). *)

\* C6: called with an empty hash list, create_merkle_root ends in an
\* InputError or returns a defined empty-root value; so does the batch
\* driver when no image contributed a hash.
C6_EmptyInputDefined ==
    (hashes = <<>> /\ merkle_state \notin {"idle", "loop"}) =>
        merkle_state \in {"returned", "InputError"}

\* The reference reduction: a level pairs its elements left to right, the
\* last element of an odd level combined with the empty string.
RECURSIVE ReferenceLevel(_)
ReferenceLevel(s) ==
    IF s = <<>> THEN <<>>
    ELSE IF Len(s) = 1 THEN <<hash_file_name(s[1] \o <<>>)>>
    ELSE <<hash_file_name(s[1] \o s[2])>> \o ReferenceLevel(SubSeq(s, 3, Len(s)))

RECURSIVE ReferenceRoot(_)
ReferenceRoot(s) ==
    IF Len(s) = 1 THEN s[1] ELSE ReferenceRoot(ReferenceLevel(s))

\* C7: for every non-empty hash list create_merkle_root returns the root of
\* the reference level-by-level reduction; a one-element list returns its
\* element unchanged.
C7_MerkleRoot ==
    (hashes # <<>> /\ merkle_state # "idle") =>
        /\ merkle_state \in {"loop", "returned"}
        /\ merkle_state = "returned" =>
              /\ merkle_root = ReferenceRoot(hashes)
              /\ Len(hashes) = 1 => merkle_root = hashes[1]

\* The root of a list of three hashes, whose first level is odd, has been
\* returned.
C7_Witness ==
    /\ merkle_state = "returned"
    /\ Len(hashes) = 3
    /\ merkle_root = hash_file_name(
                         hash_file_name(hashes[1] \o hashes[2])
                         \o hash_file_name(hashes[3]))

-----------------------------------------------------------------------------
(* Properties of the normalization (SpecNormalize).                        *)

\* out is an integer nearest to the quotient num / den (den > 0), whichever
\* way a tie is broken.
IsNearest(out, num, den) ==
    /\ 2 * (out * den - num) <= den
    /\ 2 * (num - out * den) <= den

\* The tile of record k as extracted from the raster, and as written.
SourceTile(k) ==
    ExtractTile(image_data, ManifestTiles[k].tile_id.i,
                ManifestTiles[k].tile_id.j, tile_size)
WrittenTile(k) == tile_files[ManifestTiles[k].filename]

\* The written tile of record k is the rescaling of its source tile to
\* [0, 65535], each sample rounded as nearest(out, num, den) accepts.
Rescaled(k, nearest(_, _, _)) ==
    LET tile     == SourceTile(k)
        tile_min == SetMin(PixelValues(tile))
        tile_max == SetMax(PixelValues(tile))
    IN  \A y \in 1..tile_size, x \in 1..tile_size :
            LET v   == tile[y][x]
                out == WrittenTile(k)[y][x]
            IN  /\ nearest(out, (v - tile_min) * 65535, tile_max - tile_min)
                /\ out \in 0..65535
                /\ (v = tile_min) => out = 0
                /\ (v = tile_max) => out = 65535

\* C11: for every non-degenerate tile with integer samples and local minimum
\* min < local maximum max, each normalized sample written by the split
\* equals round((v - min) * 65535 / (max - min)) (rounding to nearest), lies
\* in [0, 65535], and min maps to 0 and max to 65535.
C11_NormalizedRounded ==
    split_state = "done" =>
        \A k \in 1..Len(ManifestTiles) :
            ~IsUniform(SourceTile(k)) => Rescaled(k, IsNearest)

\* out is the quotient num / den truncated (den > 0, num >= 0).
IsTruncated(out, num, den) == out = num \div den

\* What the split does instead: each sample is the truncated quotient; the
\* range and the images of min and max are as stated.
NormalizedTruncated ==
    split_state = "done" =>
        \A k \in 1..Len(ManifestTiles) :
            ~IsUniform(SourceTile(k)) => Rescaled(k, IsTruncated)

-----------------------------------------------------------------------------
(* Termination of create_merkle_root (SpecMerkleFair).                     *)

\* ceil(m / 2) and ceil(log2(n)), n >= 1.
CeilHalf(m) == (m + 1) \div 2
CeilLog2(n) == CHOOSE k \in 0..n : 2^k >= n /\ (k = 0 \/ 2^(k - 1) < n)

\* create_merkle_root has been called on a list of n >= 1 hashes.
CalledNonEmpty == merkle_state # "idle" /\ Len(hashes) >= 1

\* The pairing levels done so far: the frames on the stack but the first.
PairingLevels == depth - 1

\* C12: for every hash list of length n >= 1, create_merkle_root terminates:
\* each recursion level with m >= 2 elements produces exactly ceil(m/2) < m
\* elements, and exactly one hash remains after exactly ceil(log2(n)) pairing
\* levels (0 levels for n = 1).
C12_MerkleTerminates ==
    /\ [][(CalledNonEmpty /\ merkle_state = "loop" /\ depth' = depth + 1) =>
            /\ Len(level) >= 2
            /\ Len(level') = CeilHalf(Len(level))
            /\ Len(level') < Len(level)]_vars
    /\ []((CalledNonEmpty /\ merkle_state = "returned") =>
            /\ Len(level) = 1
            /\ merkle_root = level[1]
            /\ PairingLevels = CeilLog2(Len(hashes)))
    /\ [](CalledNonEmpty => merkle_state # "RecursionError")
    /\ (CalledNonEmpty ~> merkle_state = "returned")

\* A list of three hashes has been reduced in two pairing levels (3 -> 2 -> 1).
C12_Witness ==
    /\ Len(hashes) = 3
    /\ merkle_state = "returned"
    /\ PairingLevels = 2
    /\ Len(level) = 1

=============================================================================
